---- MODULE Spec2Model ----
(***************************************************************************)
(* The data-shape contract ONNXStableDiffusion1ModelConfig                 *)
(* (services/api/models/ONNXStableDiffusion1ModelConfig.ts).               *)
(*                                                                         *)
(* The declaration is a TypeScript object type.  It is modelled by what    *)
(* the type admits: which property values are assignable to each declared  *)
(* property, which properties may be left out, and which properties may be *)
(* written after construction.  validate is the structural check of an     *)
(* untyped payload (a parsed JSON object) against the declaration.         *)
(***************************************************************************)
EXTENDS Naturals, Sequences, FiniteSets, TLC

VARIABLES
  pc,          \* where the deserialization layer is: idle, received, validated
  candidate,   \* the untyped payload last received
  result,      \* what validate answered for candidate
  sent,        \* the record whose serialization candidate is (round trip)
  inst,        \* a constructed instance held by client code
  built,       \* the field values inst had at construction
  constructed, \* whether inst has been constructed
  observed     \* the reader that read last, and the property it read

vars == <<pc, candidate, result, sent, inst, built, constructed, observed>>

----------------------------------------------------------------------------
(* JSON values of a payload property; Absent is a key that is not there.   *)

Absent == [kind |-> "absent", val |-> ""]
Null == [kind |-> "null", val |-> ""]
Str(s) == [kind |-> "string", val |-> s]
Num(s) == [kind |-> "number", val |-> s]

(* The properties, in declaration order. *)
Fields ==
  <<"name", "base_model", "type", "path", "description", "model_format",
    "error", "variant">>

FieldNames == {Fields[i] : i \in 1..Len(Fields)}

(* The imported enumerations (string-literal unions declared in sibling    *)
(* files).                                                                 *)
BaseModelType == {"sd-1", "sd-2"}
ModelError == {"not_found"}
ModelVariantType == {"normal", "inpaint", "depth"}

(* With strict null checks null is assignable only to a type naming null.  *)
StrictNullChecks == TRUE

IsString(v) == v.kind = "string" \/ (~StrictNullChecks /\ v.kind = "null")
IsLiteral(v, s) == v = Str(s) \/ (~StrictNullChecks /\ v.kind = "null")
IsMember(v, enum) ==
  (v.kind = "string" /\ v.val \in enum) \/ (~StrictNullChecks /\ v.kind = "null")
IsNull(v) == v.kind = "null"

----------------------------------------------------------------------------
(* The declared type of each property, as the values assignable to it.     *)
(* Each definition is preceded by the variants used to test that the       *)
(* properties below depend on it.                                          *)

T_name_nonempty(v) == IsString(v) /\ v.val # ""
T_name(v) == IsString(v)

T_base_model_string(v) == IsString(v)
T_base_model(v) == IsMember(v, BaseModelType)

T_type_string(v) == IsString(v)
T_type_sibling(v) == IsLiteral(v, "onnx") \/ IsLiteral(v, "main")
T_type(v) == IsLiteral(v, "onnx")

T_path(v) == IsString(v)

T_description_nullable(v) == IsString(v) \/ IsNull(v)
T_description(v) == IsString(v)

T_model_format_any(v) == IsNull(v) \/ IsString(v)
T_model_format(v) == IsNull(v)

T_error(v) == IsMember(v, ModelError)

T_variant(v) == IsMember(v, ModelVariantType)

Accepts(f, v) ==
  CASE f = "name" -> T_name(v)
    [] f = "base_model" -> T_base_model(v)
    [] f = "type" -> T_type(v)
    [] f = "path" -> T_path(v)
    [] f = "description" -> T_description(v)
    [] f = "model_format" -> T_model_format(v)
    [] f = "error" -> T_error(v)
    [] f = "variant" -> T_variant(v)

(* The properties declared with `?`. *)
OptionalFields_none == {}
OptionalFields_format == {"description", "error", "model_format"}
OptionalFields == {"description", "error"}

(* The properties declared `readonly`: none. *)
ReadonlyFields == {}

(* The object type itself: c is assignable to it. *)
Conforms(c) ==
  \A f \in FieldNames :
    IF c[f] = Absent THEN f \in OptionalFields ELSE Accepts(f, c[f])

----------------------------------------------------------------------------
(* validate(candidate) -> Result<ModelConfigRecord, ValidationError>       *)

NoRecord == [f \in FieldNames |-> Absent]
NoResult == [status |-> "none", record |-> NoRecord, errors |-> {}]

FieldError(c, f) ==
  IF c[f] = Absent
    THEN IF f \in OptionalFields THEN "none" ELSE "missing"
    ELSE IF Accepts(f, c[f]) THEN "none" ELSE "mismatch"

ValidationErrors(c) ==
  {[kind |-> "ValidationError", reason |-> FieldError(c, f), field |-> f] :
     f \in {g \in FieldNames : FieldError(c, g) # "none"}}

validate(c) ==
  IF Conforms(c)
    THEN [status |-> "ok", record |-> c, errors |-> {}]
    ELSE [status |-> "error", record |-> NoRecord, errors |-> ValidationErrors(c)]

(* JSON serialization of a record: one member per property that is there,  *)
(* in declaration order; strings are quoted, null is the bare word null.   *)
RECURSIVE serializeFrom(_, _)
serializeFrom(r, i) ==
  IF i > Len(Fields) THEN <<>>
  ELSE LET f == Fields[i]
           v == r[f]
           rest == serializeFrom(r, i + 1)
       IN  CASE v.kind = "absent" -> rest
             [] v.kind = "string" -> <<[key |-> f, quoted |-> TRUE, text |-> v.val]>> \o rest
             [] v.kind = "null" -> <<[key |-> f, quoted |-> FALSE, text |-> "null"]>> \o rest
             [] OTHER -> <<[key |-> f, quoted |-> FALSE, text |-> v.val]>> \o rest

serialize(r) == serializeFrom(r, 1)

parseValue(m) ==
  IF m.quoted THEN Str(m.text)
  ELSE IF m.text = "null" THEN Null ELSE Num(m.text)

parse(members) ==
  [f \in FieldNames |->
     IF \E i \in 1..Len(members) : members[i].key = f
       THEN parseValue(members[CHOOSE i \in 1..Len(members) : members[i].key = f])
       ELSE Absent]

----------------------------------------------------------------------------
(* The payloads considered: per property, values of every JSON kind that   *)
(* the declaration tells apart.                                            *)

NameVals == {Absent, Str(""), Str("sd1-onnx"), Num("0")}
BaseModelVals == {Absent, Str("sd-1"), Str("sd-2"), Str("sd-9")}
TypeVals == {Absent, Str("onnx"), Str("main"), Null}
PathVals == {Absent, Str(""), Str("/models/sd1.onnx"), Num("0")}
DescriptionVals == {Absent, Str(""), Str("an onnx model"), Null}
ModelFormatVals == {Absent, Null, Str("diffusers")}
ErrorVals == {Absent, Str("not_found"), Str("corrupt"), Null}
VariantVals == {Absent, Str("normal"), Str("inpaint"), Str("wide")}

Candidates ==
  [name : NameVals, base_model : BaseModelVals, type : TypeVals,
   path : PathVals, description : DescriptionVals,
   model_format : ModelFormatVals, error : ErrorVals, variant : VariantVals]

FieldVals(f) ==
  CASE f = "name" -> NameVals
    [] f = "base_model" -> BaseModelVals
    [] f = "type" -> TypeVals
    [] f = "path" -> PathVals
    [] f = "description" -> DescriptionVals
    [] f = "model_format" -> ModelFormatVals
    [] f = "error" -> ErrorVals
    [] f = "variant" -> VariantVals

NumReaders == 2
Readers == 1..NumReaders
NoRead == [reader |-> 0, field |-> ""]

----------------------------------------------------------------------------
Init ==
  /\ pc = "idle"
  /\ candidate = NoRecord
  /\ result = NoResult
  /\ sent = NoRecord
  /\ inst = NoRecord
  /\ built = NoRecord
  /\ constructed = FALSE
  /\ observed = NoRead

(* A payload arrives from the API collaborator. *)
Receive ==
  /\ pc = "idle"
  /\ pc' = "received"
  /\ \E c \in Candidates : candidate' = c
  /\ result' = NoResult
  /\ sent' = NoRecord
  /\ UNCHANGED <<inst, built, constructed, observed>>

(* The payload is checked against the declaration. *)
Validate ==
  /\ pc = "received"
  /\ pc' = "validated"
  /\ result' = validate(candidate)
  /\ UNCHANGED <<candidate, sent, inst, built, constructed, observed>>

(* An accepted record is serialized and the text comes back as a payload. *)
RoundTrip ==
  /\ pc = "validated"
  /\ result.status = "ok"
  /\ sent = NoRecord
  /\ pc' = "received"
  /\ sent' = result.record
  /\ candidate' = parse(serialize(result.record))
  /\ result' = NoResult
  /\ UNCHANGED <<inst, built, constructed, observed>>

Next == Receive \/ Validate \/ RoundTrip

Spec == Init /\ [][Next]_vars

----------------------------------------------------------------------------
(* The life of an instance in client code: it is constructed (from a       *)
(* validated payload or a literal, both checked against the declaration),  *)
(* read, and written through the properties the declaration lets write.    *)

Construct ==
  /\ ~constructed
  /\ \E c \in Candidates :
       /\ Conforms(c)
       /\ inst' = c
       /\ built' = c
  /\ constructed' = TRUE
  /\ UNCHANGED <<pc, candidate, result, sent, observed>>

ReadField(r, f) ==
  /\ constructed
  /\ observed' = [reader |-> r, field |-> f]
  /\ UNCHANGED <<pc, candidate, result, sent, inst, built, constructed>>

(* inst.f = v, or delete inst.f for v = Absent, as the type checker admits *)
(* it.                                                                     *)
AssignField(f, v) ==
  /\ constructed
  /\ f \notin ReadonlyFields
  /\ IF v = Absent THEN f \in OptionalFields ELSE Accepts(f, v)
  /\ inst[f] # v
  /\ inst' = [inst EXCEPT ![f] = v]
  /\ UNCHANGED <<pc, candidate, result, sent, built, constructed, observed>>

NextLife ==
  \/ Construct
  \/ \E r \in Readers, f \in FieldNames : ReadField(r, f)
  \/ \E f \in FieldNames : \E v \in FieldVals(f) : AssignField(f, v)

SpecLife == Init /\ [][NextLife]_vars

----------------------------------------------------------------------------
(* The contract of the record as the specification states it, field by     *)
(* field (data model table), written out independently of the declaration. *)

RequiredNames == {"name", "base_model", "type", "path", "model_format", "variant"}

IsText(v) == v.kind = "string"
IsOneOf(v, enum) == v.kind = "string" /\ v.val \in enum

FieldValid(c, f) ==
  CASE f = "name" -> IsText(c.name)
    [] f = "base_model" -> IsOneOf(c.base_model, BaseModelType)
    [] f = "type" -> c.type = Str("onnx")
    [] f = "path" -> IsText(c.path)
    [] f = "description" -> c.description = Absent \/ IsText(c.description)
    [] f = "model_format" -> c.model_format = Null
    [] f = "error" -> c.error = Absent \/ IsOneOf(c.error, ModelError)
    [] f = "variant" -> IsOneOf(c.variant, ModelVariantType)

ValidExcept(c, skipped) == \A f \in FieldNames \ skipped : FieldValid(c, f)
ValidRequired(c) == ValidExcept(c, {"description", "error"})
ValidAll(c) == ValidExcept(c, {})

Validated == pc = "validated"
Accepted == Validated /\ result.status = "ok"
Rejected == Validated /\ result.status = "error"
Reports(reason, f) ==
  [kind |-> "ValidationError", reason |-> reason, field |-> f] \in result.errors

C2_MissingRequired ==
  Validated =>
    \A f \in RequiredNames :
      candidate[f] = Absent => result.status = "error" /\ Reports("missing", f)

C2_Witness ==
  /\ Rejected
  /\ candidate.model_format = Absent
  /\ ValidExcept(candidate, {"model_format"})
  /\ result.errors =
       {[kind |-> "ValidationError", reason |-> "missing", field |-> "model_format"]}

(* C3: a candidate whose type is present and is not exactly "onnx" is      *)
(* rejected, whatever the other fields hold.                               *)
C3_TypeNotOnnx ==
  (Validated /\ candidate.type # Absent /\ candidate.type # Str("onnx"))
    => result.status = "error"

C3_Witness ==
  /\ Rejected
  /\ candidate.type = Str("main")
  /\ ValidExcept(candidate, {"type"})

(* C4: a candidate whose model_format is present and not null is rejected  *)
(* with a mismatch error on model_format, even when every other field is   *)
(* valid.                                                                  *)
C4_ModelFormatNotNull ==
  (Validated /\ candidate.model_format \notin {Absent, Null})
    => result.status = "error" /\ Reports("mismatch", "model_format")

C4_Witness ==
  /\ Rejected
  /\ candidate.model_format = Str("diffusers")
  /\ ValidExcept(candidate, {"model_format"})

(* C5: a candidate whose base_model is outside BaseModelType, or whose     *)
(* variant is outside ModelVariantType, is rejected with an error naming   *)
(* that field; no accepted record holds a value outside the enumerations.  *)
C5_EnumMembership ==
  Validated =>
    /\ \A f \in {"base_model", "variant"} :
         ~FieldValid(candidate, f) =>
           /\ result.status = "error"
           /\ \E e \in result.errors : e.field = f
    /\ result.status = "ok" =>
         /\ IsOneOf(result.record.base_model, BaseModelType)
         /\ IsOneOf(result.record.variant, ModelVariantType)

C5_Witness ==
  /\ Rejected
  /\ candidate.base_model = Str("sd-9")
  /\ candidate.variant = Str("wide")
  /\ ValidExcept(candidate, {"base_model", "variant"})

(* C6: for a candidate whose required fields are valid, description and    *)
(* error each decide the outcome independently: absent is accepted and     *)
(* stays absent, present with the right type is accepted, present with a   *)
(* wrong type (null included) is rejected.                                 *)
C6_OptionalFields ==
  (Validated /\ ValidRequired(candidate)) =>
    /\ result.status = "ok" <=>
         /\ candidate.description = Absent \/ IsText(candidate.description)
         /\ candidate.error = Absent \/ IsOneOf(candidate.error, ModelError)
    /\ result.status = "ok" =>
         /\ result.record.description = candidate.description
         /\ result.record.error = candidate.error
    /\ result.status = "error" =>
         \A f \in {"description", "error"} :
           Reports("mismatch", f) <=> ~FieldValid(candidate, f)

C6_Witness ==
  /\ Rejected
  /\ ValidRequired(candidate)
  /\ candidate.description = Null
  /\ candidate.error = Absent

(* C7: every accepted record has type "onnx" and model_format null.        *)
C7_TagPair ==
  result.status = "ok" =>
    result.record.type = Str("onnx") /\ result.record.model_format = Null

C7_Witness ==
  /\ Accepted
  /\ result.record.description # Absent
  /\ result.record.error # Absent

(* C8: a rejection reports errors of the one kind ValidationError, each    *)
(* naming a field that offends; an acceptance returns the candidate as it  *)
(* is, every field valid, nothing filled in or rewritten; validate changes *)
(* nothing but its result.                                                 *)
C8_NoCoercion ==
  /\ [](Validated =>
          /\ result.status \in {"ok", "error"}
          /\ result.status = "ok" =>
               result.record = candidate /\ ValidAll(candidate)
          /\ result.status = "error" =>
               /\ result.errors # {}
               /\ \A e \in result.errors :
                    /\ e.kind = "ValidationError"
                    /\ e.field \in FieldNames
                    /\ ~FieldValid(candidate, e.field))
  /\ [][(pc = "received" /\ pc' = "validated") =>
          /\ candidate' = candidate
          /\ <<sent, inst, built, constructed, observed>>' =
               <<sent, inst, built, constructed, observed>>]_vars

C8_Witness ==
  /\ Rejected
  /\ Cardinality(result.errors) >= 2
  /\ candidate.type = Str("main")
  /\ candidate.model_format = Absent

C10_NameNonEmpty == (Validated /\ candidate.name = Str("")) => result.status = "error"

(* C10 as it holds: with the other six fields valid, a candidate is        *)
(* accepted exactly when name and path are both text; the empty string is  *)
(* accepted for either.                                                    *)
C10_NameAndPathAnyText ==
  (Validated /\ ValidExcept(candidate, {"name", "path"})) =>
    (result.status = "ok" <=> (IsText(candidate.name) /\ IsText(candidate.path)))

C10_Witness ==
  /\ Accepted
  /\ candidate.name = Str("")
  /\ candidate.path = Str("")

====
